---- MODULE Spec2Model ----
(***************************************************************************)
(* A model of the oplog replication agent (src/oplog.go): the two Mongo    *)
(* collections oplog_ops (capped op-log) and oplog_states (latest state    *)
(* per object), the ingestor (Ingest / Append / append), and the per       *)
(* subscriber Tail state machine with the SSE transport that drives it.    *)
(***************************************************************************)
EXTENDS Integers, Sequences, FiniteSets, TLC

(***************************************************************************)
(* Bounds of the model.                                                    *)
(***************************************************************************)
\* operations the producer hands to the ingestor
MaxOps == 2
\* values of the wall clock (time.Now), starting at 1
MaxClock == 2
\* transient store failures before the store stays available
MaxFails == 1

\* events a reader takes from the out channel
MaxOut == 6
\* largest page size of the replication query
MaxPageSize == 2

VARIABLES
    oplog_ops,      \* the capped collection: sequence of stored operations
    oplog_states,   \* the states collection: set of objectState records
    nextId,         \* next operation id the store assigns (ids increase)
    now,            \* wall clock
    faults,         \* transient store failures still to come
    opsChan,        \* the ingestor's input channel (ops)
    doneChan,       \* TRUE when a value waits on the ingestor's done channel
    sent,           \* history: every operation handed in, in order
    apc,            \* position of each task running append
    aop,            \* the operation each task is appending
    aobj,           \* the objectState each task built (line 154)
    EventsIngested, \* Stats.EventsIngested
    completed,      \* history: serials of the operations append returned for
    atDone,         \* history: what was queued and in flight when done fired
    spc,            \* the reader of the out channel (the SSE handler, Ops)
    mpc,            \* position of the Tail call itself (lines 276-287, 478-485)
    tpc,            \* position of Tail's goroutine (lines 300-476)
    filter,         \* Tail's filter argument
    PageSize,       \* OpLog.PageSize
    lastID,         \* Tail's cursor
    lastEv,         \* the last event sent, kept for resume
    done,           \* the flag isDone reads
    iter,           \* the goroutine's iterator
    leaked,         \* TRUE when an iterator was replaced while still open
    replicationFallbackID,
    tsClause,       \* the replication query's ts clause: [gte, lte]
    eventClause,    \* the replication query's event clause ("" when absent)
    c,              \* states received from the current page
    operation,      \* TRUE when the live iterator decoded an operation
    sending,        \* the event the Tail call or its goroutine is sending
    out,            \* history: the events received from the out channel
    header,         \* the Last-Event-ID header of the connection
    upperBound,     \* history: the op id captured by the completed replication
    cursor,         \* history: the lastID argument Tail was called with
    atCall,         \* history: the next operation id when Tail was called
    dump,           \* history: the createMap Diff was called with
    scanned,        \* history: the states Diff's iterator returned
    createMap,      \* Diff's createMap
    updateMap,      \* Diff's updateMap
    deleteMap,      \* Diff's deleteMap
    diffErr         \* TRUE when Diff returned iter.Err()

storeVars == <<oplog_ops, oplog_states, nextId, now, faults>>
ingVars == <<opsChan, doneChan, sent, apc, aop, aobj, EventsIngested,
             completed, atDone>>
tailVars == <<spc, mpc, tpc, filter, PageSize, lastID, lastEv, done, iter,
              leaked, replicationFallbackID, tsClause, eventClause, c,
              operation, sending, out, header, upperBound, cursor,
              atCall>>
diffVars == <<dump, scanned, createMap, updateMap, deleteMap, diffErr>>
vars == <<storeVars, ingVars, tailVars, diffVars>>

(***************************************************************************)
(* Data model.                                                             *)
(***************************************************************************)
\* the objects of the external data model: xid -> type and parents
ObjectIds == {"x1", "x2"}
TypeOf(id) == IF id = "x1" THEN "video" ELSE "user"
ParentsOf(id) == IF id = "x1" THEN {"user/x2"} ELSE {}
OpEvents == {"insert", "update", "delete"}

\* OperationData of an object modified at source time ts
OperationData(id, ts) ==
    [t |-> TypeOf(id), id |-> id, p |-> ParentsOf(id), ts |-> ts]

\* OperationData.GetID: the canonical type/id string
GetID(data) == data.t \o "/" \o data.id

NoOp == [n |-> 0]
NoObj == [ID |-> ""]
NotYet == [queued |-> {}, inflight |-> -1]

Procs == {"Ingest", "Append"}

\* every ordering of a finite set
RECURSIVE SetToSeqs(_)
SetToSeqs(S) ==
    IF S = {} THEN {<<>>}
    ELSE UNION {{<<x>> \o r : r \in SetToSeqs(S \ {x})} : x \in S}

(***************************************************************************)
(* The store.                                                              *)
(***************************************************************************)
\* db.C("oplog_ops").Insert(op): the store assigns the next id and stamps
\* the id with the insertion time (an ObjectId embeds its creation time)
Insert(log, id, t, op) ==
    Append(log, [kind |-> "operation", ID |-> [seq |-> id, time |-> t],
                 Event |-> op.Event, Data |-> op.Data, n |-> op.n])

\* db.C("oplog_states").Upsert({_id: o.ID}, o): replace or insert by _id
UpsertPlain(states, o) == states \cup {o}
Upsert(states, o) == {s \in states : s.ID # o.ID} \cup {o}

\* the event stored in the states collection for an operation event
StateEventPlain(event) == event
StateEvent(event) == IF event = "update" THEN "insert" ELSE event

\* the objectState built at lines 154-159; n is the serial of the operation
\* it was built from
ObjectState(op, t) ==
    [kind |-> "state", ID |-> GetID(op.Data), Event |-> StateEvent(op.Event),
     Timestamp |-> t, Data |-> op.Data, n |-> op.n]

(***************************************************************************)
(* Environment: the clock, and the producers of operations.                *)
(***************************************************************************)
\* time.Now(): the wall clock never goes back; t is what this read shows
Clock(t) == t \in now..MaxClock /\ now' = t

\* the store is reachable: a write succeeds unless a transient failure hits
\* it; a store that is down fails every write until it comes back, which
\* nothing in the agent brings about
Down == -1
StoreUp == faults # Down

\* the store goes away and stays away
Outage ==
    /\ StoreUp
    /\ faults' = Down
    /\ UNCHANGED <<oplog_ops, oplog_states, nextId, now, ingVars, tailVars,
                   diffVars>>

\* a producer sends an operation on the ops channel; its data.timestamp is
\* the source-side modification time, not later than the clock
Produce ==
    /\ Len(sent) < MaxOps
    /\ \E ev \in OpEvents, id \in ObjectIds, ts \in 1..now :
         LET op == [n |-> Len(sent) + 1, via |-> "Ingest", Event |-> ev,
                    Data |-> OperationData(id, ts)]
         IN /\ opsChan' = Append(opsChan, op)
            /\ sent' = Append(sent, op)
    /\ UNCHANGED <<tailVars, diffVars>>
    /\ UNCHANGED <<storeVars, doneChan, apc, aop, aobj, EventsIngested,
                   completed, atDone>>

\* the owner of the ingestor signals done
SignalDone ==
    /\ ~doneChan
    /\ atDone = NotYet
    /\ apc["Ingest"] # "returned"
    /\ doneChan' = TRUE
    /\ atDone' = [queued |-> {opsChan[i].n : i \in 1..Len(opsChan)},
                  inflight |-> aop["Ingest"].n]
    /\ UNCHANGED <<tailVars, diffVars>>
    /\ UNCHANGED <<storeVars, opsChan, sent, apc, aop, aobj, EventsIngested,
                   completed>>

(***************************************************************************)
(* Ingest (lines 109-121) and append (lines 128-172).                      *)
(***************************************************************************)
\* select: case op := <-ops, then oplog.append(op, db)
IngestOp ==
    /\ apc["Ingest"] = "select"
    /\ opsChan # <<>>
    /\ aop' = [aop EXCEPT !["Ingest"] = Head(opsChan)]
    /\ opsChan' = Tail(opsChan)
    /\ apc' = [apc EXCEPT !["Ingest"] = "insert"]
    /\ UNCHANGED <<tailVars, diffVars>>
    /\ UNCHANGED <<storeVars, doneChan, sent, aobj, EventsIngested, completed,
                   atDone>>

\* the positions at which Ingest can take the done case of its select
DonePcAnywhere == {"select", "insert", "build", "upsert"}
DonePc == {"select"}

\* select: case <-done: return
IngestDone ==
    /\ apc["Ingest"] \in DonePc
    /\ doneChan
    /\ doneChan' = FALSE
    /\ apc' = [apc EXCEPT !["Ingest"] = "returned"]
    /\ UNCHANGED <<tailVars, diffVars>>
    /\ UNCHANGED <<storeVars, opsChan, sent, aop, aobj, EventsIngested,
                   completed, atDone>>

\* where append goes when the insert into oplog_ops fails: it sleeps,
\* refreshes the session and tries again (lines 138-144)
InsertFailedPcGiveUp == "build"
InsertFailedPc == "insert"

\* lines 137-146: insert the operation in oplog_ops, retrying for ever
AppendInsert(p) ==
    /\ apc[p] = "insert"
    /\ \/ /\ StoreUp
          /\ \E t \in 1..MaxClock :
                /\ Clock(t)
                /\ oplog_ops' = Insert(oplog_ops, nextId, t, aop[p])
          /\ nextId' = nextId + 1
          /\ apc' = [apc EXCEPT ![p] = "build"]
          /\ UNCHANGED faults
       \/ /\ faults > 0
          /\ faults' = faults - 1
          /\ apc' = [apc EXCEPT ![p] = InsertFailedPc]
          /\ UNCHANGED <<oplog_ops, nextId, now>>
    /\ UNCHANGED <<tailVars, diffVars>>
    /\ UNCHANGED <<oplog_states, opsChan, doneChan, sent, aop, aobj,
                   EventsIngested, completed, atDone>>

\* lines 147-159: normalise the event and build the objectState; its
\* Timestamp is time.Now(), read once, before the upsert is attempted
AppendBuild(p) ==
    /\ apc[p] = "build"
    /\ \E t \in 1..MaxClock :
          /\ Clock(t)
          /\ aobj' = [aobj EXCEPT ![p] = ObjectState(aop[p], t)]
    /\ apc' = [apc EXCEPT ![p] = "upsert"]
    /\ UNCHANGED <<tailVars, diffVars>>
    /\ UNCHANGED <<oplog_ops, oplog_states, nextId, faults, opsChan,
                   doneChan, sent, aop, EventsIngested, completed, atDone>>

\* the position append returns to: Ingest's select, or Append's caller
ReturnPc(p) == IF p = "Ingest" THEN "select" ELSE "idle"

\* lines 160-171: upsert the state, retrying for ever, then count the event
AppendUpsert(p) ==
    /\ apc[p] = "upsert"
    /\ \/ /\ StoreUp
          /\ oplog_states' = Upsert(oplog_states, aobj[p])
          /\ EventsIngested' = EventsIngested + 1
          /\ completed' = completed \cup {aop[p].n}
          /\ apc' = [apc EXCEPT ![p] = ReturnPc(p)]
          /\ aop' = [aop EXCEPT ![p] = NoOp]
          /\ aobj' = [aobj EXCEPT ![p] = NoObj]
          /\ UNCHANGED faults
       \/ /\ faults > 0
          /\ faults' = faults - 1
          /\ UNCHANGED <<oplog_states, EventsIngested, completed, apc, aop,
                         aobj>>
    /\ UNCHANGED <<tailVars, diffVars>>
    /\ UNCHANGED <<oplog_ops, nextId, now, opsChan, doneChan, sent,
                   atDone>>

\* Append (lines 124-126): a caller appends an operation directly
AppendCalled(events, times) ==
    /\ apc["Append"] = "idle"
    /\ Len(sent) < MaxOps
    /\ \E ev \in events, id \in ObjectIds, ts \in times :
         LET op == [n |-> Len(sent) + 1, via |-> "Append", Event |-> ev,
                    Data |-> OperationData(id, ts)]
         IN /\ aop' = [aop EXCEPT !["Append"] = op]
            /\ sent' = Append(sent, op)
    /\ apc' = [apc EXCEPT !["Append"] = "insert"]
    /\ UNCHANGED <<tailVars, diffVars>>
    /\ UNCHANGED <<storeVars, opsChan, doneChan, aobj, EventsIngested,
                   completed, atDone>>

\* operations may reach the agent late: any source time up to the clock
CallAppend == AppendCalled(OpEvents, 1..now)
\* inserts and deletes that reach the agent as they happen
CallAppendNow == AppendCalled({"insert", "delete"}, {now})

AppendStep ==
    \/ AppendInsert("Append")
    \/ AppendBuild("Append")
    \/ AppendUpsert("Append")

IngestWork ==
    \/ IngestOp
    \/ AppendInsert("Ingest")
    \/ AppendBuild("Ingest")
    \/ AppendUpsert("Ingest")

IngestStep == IngestWork \/ IngestDone


(***************************************************************************)
(* Identifiers (LastID), events and the filter.                            *)
(***************************************************************************)
NilID == [kind |-> "nil"]
OperationLastID(id) == [kind |-> "op", id |-> id]
ReplicationLastID(ts, fb) == [kind |-> "repl", ts |-> ts, fallbackMode |-> fb]

\* LastID.Time: an operation id embeds its insertion time, a replication id
\* is a timestamp
Time(l) == IF l.kind = "op" THEN l.id.time ELSE l.ts

\* LastID.String, the id on the wire: 24 hex characters for an operation
\* id, the decimal timestamp for a replication id
String(l) ==
    IF l.kind = "op" THEN [form |-> "hex", id |-> l.id]
    ELSE [form |-> "dec", val |-> l.ts]
EmptyString == [form |-> "empty"]

NoEv == [kind |-> "none"]
\* no replication has completed yet
Unset == [kind |-> "unset"]
\* a reset event that carries the id of the full replication it answers
ResetEventZero ==
    [kind |-> "control", ID |-> [form |-> "dec", val |-> 0], Event |-> "reset"]
\* &Event{ID: "1", Event: "reset"} (lines 282-285)
ResetEvent ==
    [kind |-> "control", ID |-> [form |-> "dec", val |-> 1], Event |-> "reset"]
\* &Event{ID: liveID, Event: "live"} (lines 450-453)
LiveEvent(id) == [kind |-> "control", ID |-> id, Event |-> "live"]

\* GetEventID of an Operation and of an objectState
GetEventID(ev) ==
    IF ev.kind = "operation" THEN OperationLastID(ev.ID)
    ELSE ReplicationLastID(ev.Timestamp, FALSE)

\* the id a reader sees on an event
WireID(ev) == IF ev.kind = "control" THEN ev.ID ELSE String(GetEventID(ev))

NoFilter == [Types |-> {}, Parents |-> {}]
Filters ==
    {NoFilter, [Types |-> {"user"}, Parents |-> {}],
     [Types |-> {}, Parents |-> {"user/x2"}]}

\* filter.apply: data.t $in Types when given, data.p $in Parents when given
ApplyTypesOnly(f, data) == f.Types # {} => data.t \in f.Types
Apply(f, data) ==
    /\ f.Types # {} => data.t \in f.Types
    /\ f.Parents # {} => data.p \cap f.Parents # {}

(***************************************************************************)
(* Queries.                                                                *)
(***************************************************************************)
None == -1

\* db.C("oplog_ops").Find(nil).Sort("-$natural").One, as LastID returns it
LastOpID(log) ==
    IF log = <<>> THEN NilID ELSE OperationLastID(log[Len(log)].ID)

\* the operations a tailable iterator positioned after id pos still has to
\* return, in natural order (lines 325-331)
LiveMatchingFrom(log, f, pos) ==
    SelectSeq(log, LAMBDA o : o.ID.seq >= pos /\ Apply(f, o.Data))
LiveMatching(log, f, pos) ==
    SelectSeq(log, LAMBDA o : o.ID.seq > pos /\ Apply(f, o.Data))

\* the states the replication query matches (lines 381-398)
ReplMatching(states, f, ts, ev) ==
    {s \in states :
        /\ Apply(f, s.Data)
        /\ ts.gte # None => s.Timestamp >= ts.gte
        /\ ts.lte # None => s.Timestamp <= ts.lte
        /\ ev # "" => s.Event = ev}

Min(a, b) == IF a < b THEN a ELSE b

\* Find(query).Limit(n), the sort left out: any n matching states
PagesUnsorted(S, n) ==
    {SubSeq(q, 1, Min(n, Len(q))) : q \in SetToSeqs(S)}
\* Find(query).Sort("ts").Limit(n): the first n matching states in ascending
\* ts, equal ts in any order
Pages(S, n) ==
    {SubSeq(q, 1, Min(n, Len(q))) :
        q \in {q \in SetToSeqs(S) :
                  \A i, j \in 1..Len(q) :
                      i < j => q[i].Timestamp <= q[j].Timestamp}}

NilIter == [state |-> "nil", pos |-> 0, buf |-> <<>>]
\* Find(query).Sort("$natural").Tail(5 * time.Second) (line 331): a tailable
\* cursor whose query matches nothing when it is opened is dead at once
TailIter(log, f, pos) ==
    [state |-> IF LiveMatching(log, f, pos) = <<>> THEN "dead" ELSE "open",
     pos |-> pos, buf |-> <<>>]
PageIter(buf) ==
    [state |-> "open", pos |-> 0, buf |-> buf]
\* iter.Close()
Close(it) == [it EXCEPT !.state = "closed"]
\* the deferred close of lines 307-311
DeferredClose(it) == IF it.state = "nil" THEN it ELSE Close(it)
\* the iterator variable is overwritten: the old iterator leaks unless closed
Leak(it) == it.state \notin {"nil", "closed"}

\* the reader of the out channel is ready to receive
ReaderReady == spc = "serving" /\ Len(out) < MaxOut

(***************************************************************************)
(* Tail (lines 273-486).                                                   *)
(***************************************************************************)
\* top of the loop (lines 319-331, 370-371): an operation id or nil opens
\* a tailable iterator after that id, a replication id starts a replication
LoopTop(l, f, it) ==
    IF l.kind \in {"op", "nil"}
    THEN /\ iter' = TailIter(oplog_ops, f,
                             IF l.kind = "op" THEN l.id.seq ELSE 0)
         /\ leaked' = (leaked \/ Leak(it))
         /\ operation' = FALSE
         /\ tpc' = "live"
    ELSE /\ iter' = it
         /\ tpc' = "capture"
         /\ UNCHANGED <<leaked, operation>>

\* Tail is called (lines 273-300): a full replication request first sends
\* the reset event, and only then starts the goroutine
CallTail(l, f) ==
    /\ mpc = "idle"
    /\ spc' = "serving"
    /\ lastID' = l
    /\ cursor' = l
    /\ atCall' = nextId
    /\ filter' = f
    /\ IF l.kind = "repl" /\ l.ts = 0
       THEN /\ mpc' = "reset"
            /\ sending' = ResetEvent
            /\ UNCHANGED <<tpc, iter, leaked, operation>>
       ELSE /\ mpc' = "select"
            /\ LoopTop(l, f, iter)
            /\ UNCHANGED sending
    /\ UNCHANGED <<PageSize, lastEv, done, replicationFallbackID, tsClause,
                   eventClause, c, out, upperBound>>
    /\ UNCHANGED <<storeVars, ingVars, diffVars>>

\* out <- reset is received (line 282); the goroutine starts (line 300)
ResetSent ==
    /\ mpc = "reset"
    /\ ReaderReady
    /\ out' = Append(out, sending)
    /\ sending' = NoEv
    /\ mpc' = "select"
    /\ LoopTop(lastID, filter, iter)
    /\ UNCHANGED <<spc, filter, PageSize, lastID, lastEv, done,
                   replicationFallbackID, tsClause, eventClause, c,
                   upperBound, cursor, atCall>>
    /\ UNCHANGED <<storeVars, ingVars, diffVars, header>>

\* a step of the goroutine returns: the deferred calls close the iterator
\* and the session (lines 304-311)
Returned(it) == tpc' = "returned" /\ iter' = DeferredClose(it)

\* the goroutine is at a send on out that no reader takes
Blocked(ev) == tpc' = "blocked" /\ sending' = ev

\* iter.Next on the tailable iterator and what follows (lines 334-369).
\* While the cursor is open and has nothing to return, Next times out and
\* is called again (lines 348-351): no step of the model.
TailLiveNext ==
    /\ tpc = "live"
    /\ LET avail == LiveMatching(oplog_ops, filter, iter.pos)
           next == [iter EXCEPT !.pos = Head(avail).ID.seq]
       IN
       \/ \* an operation is decoded and sent, unless Tail was stopped
          /\ iter.state = "open"
          /\ avail # <<>>
          /\ operation' = TRUE
          /\ IF done
             THEN Returned(next) /\ UNCHANGED <<sending, out, lastEv>>
             ELSE /\ iter' = next
                  /\ IF ReaderReady
                     THEN /\ out' = Append(out, Head(avail))
                          /\ lastEv' = Head(avail)
                          /\ UNCHANGED <<tpc, sending>>
                     ELSE Blocked(Head(avail)) /\ UNCHANGED <<out, lastEv>>
          /\ UNCHANGED leaked
       \/ \* the iterator failed: iter.Err() is logged and Tail retries
          /\ iter.state = "err"
          /\ IF done THEN Returned(iter)
             ELSE tpc' = "retry" /\ UNCHANGED iter
          /\ UNCHANGED <<operation, sending, out, lastEv, leaked>>
       \/ \* the cursor is dead with neither error nor timeout: retry when
          \* it had returned an operation, else sleep and open another
          /\ iter.state = "dead"
          /\ IF done
             THEN Returned(iter) /\ UNCHANGED <<operation, leaked>>
             ELSE IF operation
             THEN tpc' = "retry" /\ UNCHANGED <<iter, operation, leaked>>
             ELSE LoopTop(lastID, filter, iter)
          /\ UNCHANGED <<sending, out, lastEv>>
    /\ UNCHANGED <<spc, mpc, filter, PageSize, lastID, done,
                   replicationFallbackID, tsClause, eventClause, c,
                   upperBound, cursor, atCall>>
    /\ UNCHANGED <<storeVars, ingVars, diffVars, header>>

\* the open tailable cursor breaks: a network or server error, or the
\* server kills the cursor
CursorFault ==
    /\ tpc = "live"
    /\ iter.state = "open"
    /\ faults > 0
    /\ faults' = faults - 1
    /\ \E st \in {"err", "dead"} : iter' = [iter EXCEPT !.state = st]
    /\ UNCHANGED <<spc, mpc, tpc, filter, PageSize, lastID, lastEv, done,
                   leaked, replicationFallbackID, tsClause, eventClause, c,
                   operation, sending, out, upperBound, cursor, atCall>>
    /\ UNCHANGED <<oplog_ops, oplog_states, nextId, now, ingVars, diffVars, header>>

\* the event clause of the replication query (lines 393-398)
EventClauseNever(l) == ""
EventClause(l) == IF ~l.fallbackMode THEN "insert" ELSE ""

\* the ts clause without the upper limit of lines 389-392
TsClauseNoUpper(l, upper) ==
    [gte |-> IF l.ts > 0 THEN Time(l) ELSE None, lte |-> None]
\* the ts clause of the replication query (lines 383-392)
TsClause(l, upper) ==
    [gte |-> IF l.ts > 0 THEN Time(l) ELSE None,
     lte |-> IF upper # NilID THEN Time(upper) ELSE None]

\* capture the op-log position and build the query (lines 373-398)
TailCapture ==
    /\ tpc = "capture"
    /\ replicationFallbackID' = LastOpID(oplog_ops)
    /\ tsClause' = TsClause(lastID, LastOpID(oplog_ops))
    /\ eventClause' = EventClause(lastID)
    /\ tpc' = "page"
    /\ UNCHANGED <<spc, mpc, filter, PageSize, lastID, lastEv, done, iter,
                   leaked, c, operation, sending, out, upperBound, cursor, atCall>>
    /\ UNCHANGED <<storeVars, ingVars, diffVars, header>>

\* oplog.LastID fails: goto retry (lines 376-379)
TailCaptureFail ==
    /\ tpc = "capture"
    /\ faults > 0
    /\ faults' = faults - 1
    /\ replicationFallbackID' = NilID
    /\ tpc' = "retry"
    /\ UNCHANGED <<spc, mpc, filter, PageSize, lastID, lastEv, done, iter,
                   leaked, tsClause, eventClause, c, operation, sending,
                   out, upperBound, cursor, atCall>>
    /\ UNCHANGED <<oplog_ops, oplog_states, nextId, now, ingVars, diffVars, header>>

\* the query of one page is issued (lines 403-406)
TailPage ==
    /\ tpc = "page"
    /\ \E q \in Pages(ReplMatching(oplog_states, filter, tsClause,
                                   eventClause), PageSize) :
          iter' = PageIter(q)
    /\ leaked' = (leaked \/ Leak(iter))
    /\ c' = 0
    /\ tpc' = "repl"
    /\ UNCHANGED <<spc, mpc, filter, PageSize, lastID, lastEv, done,
                   replicationFallbackID, tsClause, eventClause, operation,
                   sending, out, upperBound, cursor, atCall>>
    /\ UNCHANGED <<storeVars, ingVars, diffVars, header>>

\* a live event that always carries the default id of line 446
LiveIDDefault(ev) == EmptyString
\* the id the live event carries (lines 446-449)
LiveID(ev) == IF ev # NoEv THEN String(GetEventID(ev)) ELSE EmptyString

\* a page was consumed in full: there may be a next one (line 429)
PageFull(ev, n) == ev # NoEv /\ n = PageSize

\* iter.Next on a page and what follows (lines 407-461)
TailReplNext ==
    /\ tpc = "repl"
    /\ \/ \* a state is decoded and sent, unless Tail was stopped
          /\ iter.buf # <<>>
          /\ LET next == [iter EXCEPT !.buf = Tail(iter.buf)] IN
             IF done
             THEN Returned(next) /\ UNCHANGED <<sending, out, lastEv, c>>
             ELSE /\ iter' = next
                  /\ IF ReaderReady
                     THEN /\ out' = Append(out, Head(iter.buf))
                          /\ lastEv' = Head(iter.buf)
                          /\ c' = c + 1
                          /\ UNCHANGED <<tpc, sending>>
                     ELSE /\ Blocked(Head(iter.buf))
                          /\ UNCHANGED <<out, lastEv, c>>
          /\ UNCHANGED <<tsClause, lastID, replicationFallbackID,
                         upperBound>>
       \/ \* the page is exhausted: next page, or replication is done, the
          \* live event is sent and Tail switches to the live updates at
          \* the captured position
          /\ iter.buf = <<>>
          /\ IF done
             THEN /\ Returned(iter)
                  /\ UNCHANGED <<sending, out, lastEv, tsClause, lastID,
                                 replicationFallbackID, upperBound>>
             ELSE IF PageFull(lastEv, c)
             THEN /\ tsClause' = [tsClause EXCEPT
                                    !.gte = Time(GetEventID(lastEv))]
                  /\ tpc' = "page"
                  /\ UNCHANGED <<iter, sending, out, lastEv, lastID,
                                 replicationFallbackID, upperBound>>
             ELSE IF ReaderReady
             THEN /\ out' = Append(out, LiveEvent(LiveID(lastEv)))
                  /\ upperBound' = replicationFallbackID
                  /\ lastID' = replicationFallbackID
                  /\ replicationFallbackID' = NilID
                  /\ lastEv' = NoEv
                  /\ tpc' = "retry"
                  /\ UNCHANGED <<iter, sending, tsClause>>
             ELSE /\ Blocked(LiveEvent(LiveID(lastEv)))
                  /\ UNCHANGED <<iter, out, lastEv, tsClause, lastID,
                                 replicationFallbackID, upperBound>>
          /\ UNCHANGED c
    /\ UNCHANGED <<spc, mpc, filter, PageSize, done, leaked, eventClause,
                   operation, cursor, atCall>>
    /\ UNCHANGED <<storeVars, ingVars, diffVars, header>>

\* the replication query fails: iter.Err() is logged, goto retry
\* (lines 420-427)
TailReplFail ==
    /\ tpc = "repl"
    /\ faults > 0
    /\ faults' = faults - 1
    /\ IF done THEN Returned(iter)
       ELSE tpc' = "retry" /\ UNCHANGED iter
    /\ UNCHANGED <<spc, mpc, filter, PageSize, lastID, lastEv, done, leaked,
                   replicationFallbackID, tsClause, eventClause, c,
                   operation, sending, out, upperBound, cursor, atCall>>
    /\ UNCHANGED <<oplog_ops, oplog_states, nextId, now, ingVars, diffVars, header>>

\* the cursor the next pass of the loop uses (lines 472-474)
RetryIDRestart(l, ev) == IF ev # NoEv THEN GetEventID(ev) ELSE cursor
RetryID(l, ev) == IF ev # NoEv THEN GetEventID(ev) ELSE l

\* retry: close the iterator, back off, refresh the session and resume
\* after the last event sent (lines 467-475); closing an iterator that was
\* never opened is a nil dereference
TailRetry ==
    /\ tpc = "retry"
    /\ IF iter.state = "nil"
       THEN tpc' = "panic" /\ UNCHANGED <<iter, lastID, leaked, operation>>
       ELSE /\ lastID' = RetryID(lastID, lastEv)
            /\ LoopTop(RetryID(lastID, lastEv), filter, Close(iter))
    /\ UNCHANGED <<spc, mpc, filter, PageSize, lastEv, done,
                   replicationFallbackID, tsClause, eventClause, c,
                   sending, out, upperBound, cursor, atCall>>
    /\ UNCHANGED <<storeVars, ingVars, diffVars, header>>

\* the goroutine of Tail
TailStep ==
    \/ TailLiveNext
    \/ TailCapture
    \/ TailPage
    \/ TailReplNext
    \/ TailRetry

\* the failures of the store the goroutine meets
TailFault ==
    \/ CursorFault
    \/ TailCaptureFail
    \/ TailReplFail

(***************************************************************************)
(* The SSE transport (SSEDaemon.Ops) and the stop handshake.               *)
(***************************************************************************)
\* OperationLastID.Fallback: the replication id of the operation's time, in
\* fallback mode
Fallback(l) == ReplicationLastID(Time(l), TRUE)

\* oplog.HasID (lines 234-244): an operation id is looked up in the
\* op-log, a replication id is always found
HasID(log, l) ==
    IF l.kind = "op" THEN \E i \in 1..Len(log) : log[i].ID = l.id ELSE TRUE

\* NewLastID: at most 13 digits make a replication id, 24 hex characters an
\* operation id
NewLastID(h) ==
    IF h.form = "dec" THEN ReplicationLastID(h.val, FALSE)
    ELSE OperationLastID(h.id)

\* the Last-Event-ID headers a subscriber sends
Headers ==
    {EmptyString, [form |-> "bad"]}
    \cup {[form |-> "dec", val |-> v] : v \in 0..MaxClock}
    \cup {[form |-> "hex", id |-> [seq |-> q, time |-> t]] :
             q \in 1..MaxOps, t \in 1..MaxClock}

\* the handler answers with an error status and never calls Tail
Refuse(status) ==
    /\ spc' = status
    /\ UNCHANGED <<mpc, tpc, filter, PageSize, lastID, lastEv, done, iter,
                   leaked, replicationFallbackID, tsClause, eventClause, c,
                   operation, sending, out, upperBound, cursor, atCall>>
    /\ UNCHANGED <<storeVars, ingVars, diffVars>>

\* a lookup of the handler fails: 503
OpsStoreFails ==
    /\ faults > 0
    /\ faults' = faults - 1
    /\ spc' = "503"
    /\ UNCHANGED <<mpc, tpc, filter, PageSize, lastID, lastEv, done, iter,
                   leaked, replicationFallbackID, tsClause, eventClause, c,
                   operation, sending, out, upperBound, cursor, atCall>>
    /\ UNCHANGED <<oplog_ops, oplog_states, nextId, now, ingVars, diffVars>>

\* SSEDaemon.Ops up to `go Tail` (src/.travis.yml lines 111-180): no header
\* means the last id of the op-log; a header is parsed and looked up, and
\* an operation id that is not found is replaced by its fallback
Ops(h, f) ==
    /\ spc = "idle"
    /\ mpc = "idle"
    /\ header' = h
    /\ IF h = EmptyString
       THEN CallTail(LastOpID(oplog_ops), f) \/ OpsStoreFails
       ELSE IF h.form \notin {"dec", "hex"}
       THEN Refuse("400")
       ELSE \/ /\ h.form = "hex"
               /\ OpsStoreFails
            \/ IF HasID(oplog_ops, NewLastID(h))
               THEN CallTail(NewLastID(h), f)
               ELSE CallTail(Fallback(NewLastID(h)), f)

\* the subscriber goes away: CloseNotify fires and the handler, which reads
\* no more events, sends on stop (lines 183-187); the reader's record notes
\* how long the op-log was then
Closed(n) == [kind |-> "closed", at |-> n]
Disconnect ==
    /\ spc = "serving"
    /\ spc' = "stopping"
    /\ out' = Append(out, Closed(Len(oplog_ops)))
    /\ UNCHANGED <<mpc, tpc, filter, PageSize, lastID, lastEv, done, iter,
                   leaked, replicationFallbackID, tsClause, eventClause, c,
                   operation, sending, upperBound, cursor, atCall>>
    /\ UNCHANGED <<storeVars, ingVars, diffVars, header>>

\* Tail receives stop (lines 478-483): done is set and Tail waits for its
\* goroutine; the handler returns
TailStop ==
    /\ mpc = "select"
    /\ spc = "stopping"
    /\ done' = TRUE
    /\ mpc' = "wait"
    /\ spc' = "returned"
    /\ UNCHANGED <<tpc, filter, PageSize, lastID, lastEv, iter, leaked,
                   replicationFallbackID, tsClause, eventClause, c,
                   operation, sending, out, upperBound, cursor, atCall>>
    /\ UNCHANGED <<storeVars, ingVars, diffVars, header>>

\* wg.Wait returns once the goroutine has returned (lines 483-485)
TailReturn ==
    /\ mpc = "wait"
    /\ tpc = "returned"
    /\ mpc' = "returned"
    /\ UNCHANGED <<spc, tpc, filter, PageSize, lastID, lastEv, done, iter,
                   leaked, replicationFallbackID, tsClause, eventClause, c,
                   operation, sending, out, upperBound, cursor, atCall>>
    /\ UNCHANGED <<storeVars, ingVars, diffVars, header>>

\* the id of the last event the subscriber received
LastEventID ==
    LET evs == SelectSeq(out, LAMBDA e : e.kind # "closed")
    IN IF evs = <<>> THEN EmptyString ELSE WireID(evs[Len(evs)])

\* the handler and Tail have returned: the next connection starts a new
\* handler and a new Tail call, whose locals are fresh
Release ==
    /\ mpc = "returned"
    /\ spc = "returned"
    /\ Cardinality({i \in 1..Len(out) : out[i].kind = "closed"}) = 1
    /\ spc' = "idle"
    /\ mpc' = "idle"
    /\ tpc' = "none"
    /\ lastID' = NilID
    /\ lastEv' = NoEv
    /\ done' = FALSE
    /\ iter' = NilIter
    /\ replicationFallbackID' = NilID
    /\ tsClause' = [gte |-> None, lte |-> None]
    /\ eventClause' = ""
    /\ c' = 0
    /\ operation' = FALSE
    /\ sending' = NoEv
    /\ upperBound' = Unset
    /\ cursor' = NilID
    /\ atCall' = 1
    /\ UNCHANGED <<filter, PageSize, leaked, out>>
    /\ UNCHANGED <<storeVars, ingVars, diffVars, header>>

\* the subscriber comes back with the id of the last event it received
Resume ==
    /\ \E i \in 1..Len(out) : out[i].kind = "closed"
    /\ Ops(LastEventID, filter)

\* the op-log is a capped collection (lines 64-106): the oldest operation
\* is dropped to make room
Evict ==
    /\ Len(oplog_ops) > 1
    /\ oplog_ops' = Tail(oplog_ops)
    /\ UNCHANGED <<oplog_states, nextId, now, faults, ingVars, diffVars, tailVars>>

(***************************************************************************)
(* Diff (lines 182-231).                                                   *)
(***************************************************************************)
\* an empty map[string]OperationData
NoMap == <<>>
\* a delete that removes nothing
DeleteNothing(m, k) == m
\* delete(m, k) and m[k] = v
Delete(m, k) == [x \in DOMAIN m \ {k} |-> m[x]]
Put(m, k, v) == [x \in DOMAIN m \cup {k} |-> IF x = k THEN v ELSE m[x]]

\* time.Unix(0, 0)
Epoch == 0
\* a dump time that never leaves its initial value of line 187
DumpTimeEpoch(create) == Epoch
\* the most recent timestamp of the dump (lines 187-192)
DumpTime(create) ==
    LET ts == {create[k].ts : k \in DOMAIN create} \cup {Epoch}
    IN CHOOSE t \in ts : \A u \in ts : u <= t

\* the event the loop of Diff takes for a deleted object (line 197)
DiffTombstone == "deleted"

\* the body of the loop for one state obs (lines 197-224)
DiffStep(m, obs, dumpTime) ==
    IF obs.Event = DiffTombstone
    THEN IF /\ obs.ID \in DOMAIN m.create
            /\ m.create[obs.ID].ts < obs.Data.ts
         THEN [m EXCEPT !.create = Delete(@, obs.ID)]
         ELSE m
    ELSE IF obs.ID \in DOMAIN m.create
    THEN [m EXCEPT !.create = Delete(@, obs.ID),
                   !.update = IF obs.Data.ts < m.create[obs.ID].ts
                              THEN Put(@, obs.ID, m.create[obs.ID])
                              ELSE @]
    ELSE IF obs.Data.ts < dumpTime
    THEN [m EXCEPT !.delete = Put(@, obs.ID, obs.Data),
                   !.create = Delete(@, obs.ID)]
    ELSE m

\* the loop over the states the iterator returns, in the order q
RECURSIVE DiffLoop(_, _, _)
DiffLoop(q, m, dumpTime) ==
    IF q = <<>> THEN m
    ELSE DiffLoop(Tail(q), DiffStep(m, Head(q), dumpTime), dumpTime)

\* Diff on the three maps when the iterator returns the states q
Diff(create, update, delete, q) ==
    DiffLoop(q, [create |-> create, update |-> update, delete |-> delete],
             DumpTime(create))

\* the dumps of the source database: some of the objects, each with the
\* time the source last modified it
Dumps(times) ==
    UNION {{[k \in {GetID(OperationData(id, 0)) : id \in S} |->
               LET id == CHOOSE i \in S : GetID(OperationData(i, 0)) = k
               IN OperationData(id, f[id])] : f \in [S -> times]} :
           S \in SUBSET ObjectIds}

\* Diff is called with a dump and two empty maps, and scans the states
DiffCalled(q, err) ==
    /\ \E d \in Dumps(1..now) :
          LET m == Diff(d, NoMap, NoMap, q)
          IN /\ dump' = d
             /\ createMap' = m.create
             /\ updateMap' = m.update
             /\ deleteMap' = m.delete
    /\ scanned' = q
    /\ diffErr' = err
    /\ UNCHANGED <<oplog_ops, oplog_states, nextId, now, ingVars, tailVars>>

\* the iterator returns every state and Diff returns nil
CallDiff ==
    /\ \E q \in SetToSeqs(oplog_states) : DiffCalled(q, FALSE)
    /\ UNCHANGED faults

\* the iterator fails after some of the states: Diff returns iter.Err()
\* (lines 226-228)
CallDiffFail ==
    /\ faults > 0
    /\ faults' = faults - 1
    /\ \E q \in SetToSeqs(oplog_states), k \in 0..Cardinality(oplog_states) :
          k < Len(q) /\ DiffCalled(SubSeq(q, 1, k), TRUE)

(***************************************************************************)
(* Specifications.                                                         *)
(***************************************************************************)
InitStore ==
    /\ oplog_ops = <<>>
    /\ oplog_states = {}
    /\ nextId = 1
    /\ now = 1
    /\ faults = MaxFails

InitIngest ==
    /\ opsChan = <<>>
    /\ doneChan = FALSE
    /\ sent = <<>>
    /\ apc = [p \in Procs |-> ReturnPc(p)]
    /\ aop = [p \in Procs |-> NoOp]
    /\ aobj = [p \in Procs |-> NoObj]
    /\ EventsIngested = 0
    /\ completed = {}
    /\ atDone = NotYet

InitTail ==
    /\ spc = "idle"
    /\ mpc = "idle"
    /\ tpc = "none"
    /\ filter = NoFilter
    /\ PageSize \in 1..MaxPageSize
    /\ lastID = NilID
    /\ lastEv = NoEv
    /\ done = FALSE
    /\ iter = NilIter
    /\ leaked = FALSE
    /\ replicationFallbackID = NilID
    /\ tsClause = [gte |-> None, lte |-> None]
    /\ eventClause = ""
    /\ c = 0
    /\ operation = FALSE
    /\ sending = NoEv
    /\ out = <<>>
    /\ header = EmptyString
    /\ upperBound = Unset
    /\ cursor = NilID
    /\ atCall = 1

InitDiff ==
    /\ dump = NoMap
    /\ scanned = <<>>
    /\ createMap = NoMap
    /\ updateMap = NoMap
    /\ deleteMap = NoMap
    /\ diffErr = FALSE

InitI == InitStore /\ InitIngest /\ InitTail /\ InitDiff

\* one Tail call with a reader that takes every event, the Ingest task
\* running beside it
InitT == InitStore /\ InitIngest /\ InitTail /\ InitDiff
\* the full replication of an empty cursor, every object wanted
StartSync ==
    CallTail(ReplicationLastID(0, FALSE), NoFilter) /\ UNCHANGED header
\* a filtered Tail: from the start of the op-log, a full replication, or
\* the fallback of an evicted cursor
FilterCursors ==
    {NilID, ReplicationLastID(0, FALSE), ReplicationLastID(1, TRUE)}
StartFiltered ==
    /\ \E l \in FilterCursors, f \in Filters \ {NoFilter} : CallTail(l, f)
    /\ UNCHANGED header
NextF ==
    \/ CallAppendNow
    \/ AppendStep
    \/ StartFiltered
    \/ ResetSent
    \/ TailStep
    \/ TailFault
SpecFilter == InitT /\ [][NextF]_vars

\* a subscriber that asks for a full sync, goes away at any moment, and
\* comes back once with the id of the last event it received
FirstConnect == out = <<>> /\ Ops([form |-> "dec", val |-> 0], NoFilter)
NextR ==
    \/ CallAppendNow
    \/ AppendStep
    \/ FirstConnect
    \/ ResetSent
    \/ TailStep
    \/ Disconnect
    \/ TailStop
    \/ TailReturn
    \/ Release
    \/ Resume
SpecResume == InitT /\ [][NextR]_vars
\* a full sync whose subscriber goes away at any moment, the store of the
\* Tail never failing
NextS ==
    \/ CallAppendNow
    \/ AppendStep
    \/ StartSync
    \/ ResetSent
    \/ TailStep
    \/ Disconnect
    \/ TailStop
    \/ TailReturn
SpecStop == InitT /\ [][NextS]_vars
\* the goroutine of Tail and Tail itself are goroutines the scheduler keeps
\* running; nothing makes the store fail or the producers produce
SpecStopFair ==
    /\ SpecStop
    /\ WF_vars(TailStep)
    /\ WF_vars(TailStop)
    /\ WF_vars(TailReturn)

\* subscribers connecting with any header while the capped op-log evicts
Connect == out = <<>> /\ \E h \in Headers : Ops(h, NoFilter)
NextE ==
    \/ CallAppendNow
    \/ AppendStep
    \/ Evict
    \/ Connect
    \/ ResetSent
    \/ TailStep
    \/ TailFault
SpecEvict == InitT /\ [][NextE]_vars

\* one Tail call with any cursor: nil, the id of an operation of the
\* op-log, a full or partial replication, or a fallback
Cursors(log) ==
    {NilID, ReplicationLastID(0, FALSE), ReplicationLastID(1, FALSE),
     ReplicationLastID(1, TRUE)}
    \cup {OperationLastID(log[i].ID) : i \in 1..Len(log)}
StartAny ==
    /\ \E l \in Cursors(oplog_ops) : CallTail(l, NoFilter)
    /\ UNCHANGED header
NextC ==
    \/ CallAppendNow
    \/ AppendStep
    \/ StartAny
    \/ ResetSent
    \/ TailStep
    \/ TailFault
SpecCursors == InitT /\ [][NextC]_vars

\* one Tail call with any cursor over a store that no one writes during
\* the call: the appends are over when Tail is called
QuietAppend == mpc = "idle" /\ (CallAppendNow \/ AppendStep)
StartQuiet == apc["Append"] = "idle" /\ StartAny
NextQ ==
    \/ QuietAppend
    \/ StartQuiet
    \/ ResetSent
    \/ TailStep
    \/ TailFault
SpecQuiet == InitT /\ [][NextQ]_vars
\* the same with a store that never fails the Tail
NextP ==
    \/ QuietAppend
    \/ StartQuiet
    \/ ResetSent
    \/ TailStep
SpecPaging == InitT /\ [][NextP]_vars

NextT ==
    \/ CallAppendNow
    \/ AppendStep
    \/ StartSync
    \/ ResetSent
    \/ TailStep
    \/ TailFault
SpecTail == InitT /\ [][NextT]_vars

\* the Ingest task together with a caller of Append
NextA == Produce \/ CallAppend \/ IngestWork \/ AppendStep
SpecAppend == InitI /\ [][NextA]_vars
\* both are goroutines the scheduler keeps running
SpecAppendFair == SpecAppend /\ WF_vars(IngestWork) /\ WF_vars(AppendStep)

\* Diff called at any moment while a caller of Append writes the store
NextD == CallAppend \/ AppendStep \/ CallDiff \/ CallDiffFail
SpecDiff == InitI /\ [][NextD]_vars

\* the ingestor alone: a producer, the Ingest task, the clock, store faults
NextI == Produce \/ SignalDone \/ IngestStep
SpecIngest == InitI /\ [][NextI]_vars
\* the Ingest task is a goroutine the scheduler keeps running
SpecIngestFair == SpecIngest /\ WF_vars(IngestStep)

\* the ingestor with a store that may go away for good
NextO == Produce \/ SignalDone \/ IngestStep \/ Outage
SpecOutage == InitI /\ [][NextO]_vars
SpecOutageFair == SpecOutage /\ WF_vars(IngestStep)

(***************************************************************************)
(* Properties of the ingestor.                                             *)
(***************************************************************************)
\* the operation with serial n is in the op-log: HasOpId(o.id)
InLog(n) == \E i \in 1..Len(oplog_ops) : oplog_ops[i].n = n

\* the states collection holds a record with _id = type/id of operation n
\* whose data equals the operation's data
StateHolds(n) ==
    \E i \in 1..Len(oplog_ops) :
        /\ oplog_ops[i].n = n
        /\ \E s \in oplog_states :
              /\ s.ID = oplog_ops[i].Data.t \o "/" \o oplog_ops[i].Data.id
              /\ s.Data = oplog_ops[i].Data

\* C5: every operation taken from the ops channel by Ingest, or passed to
\* Append, is eventually in the op-log with the states collection holding
\* its data under _id = type/id, whatever transient store failures hit the
\* insert and the upsert before the store recovers.
C5_NeverDrops ==
    \A n \in 1..(MaxOps + 1) :
        (\E p \in Procs : aop[p].n = n) ~> (InLog(n) /\ StateHolds(n))

\* C5 witness: a store failure was consumed and an operation went through
C5_Witness ==
    /\ faults < MaxFails
    /\ \E n \in completed : InLog(n) /\ StateHolds(n)

\* every operation handed in came through the single Ingest stream and has
\* been fully processed
AllProcessed ==
    /\ \A i \in 1..Len(sent) : sent[i].via = "Ingest"
    /\ completed = 1..Len(sent)

\* the last operation of the ingested sequence that affects object _id
LastOpOn(id) ==
    LET idx == {i \in 1..Len(sent) :
                   sent[i].Data.t \o "/" \o sent[i].Data.id = id}
    IN sent[CHOOSE i \in idx : \A j \in idx : j <= i]

Touched == {sent[i].Data.t \o "/" \o sent[i].Data.id : i \in 1..Len(sent)}

\* C6: the states collection never holds event=update and never two records
\* with one _id; and once a sequence of operations ingested through one
\* Ingest stream is processed, each object has exactly one record, whose
\* event is insert iff the object's last operation was insert or update and
\* delete iff it was delete.
C6_FinalStateEvent ==
    /\ \A s \in oplog_states : s.Event # "update"
    /\ \A s1, s2 \in oplog_states : s1.ID = s2.ID => s1 = s2
    /\ AllProcessed =>
         \A id \in Touched :
            /\ Cardinality({s \in oplog_states : s.ID = id}) = 1
            /\ \A s \in oplog_states :
                 s.ID = id =>
                   /\ s.Event = "insert" <=>
                        LastOpOn(id).Event \in {"insert", "update"}
                   /\ s.Event = "delete" <=> LastOpOn(id).Event = "delete"

\* C6 witness: a delete followed by an update of the same object, processed
C6_Witness ==
    /\ AllProcessed
    /\ Len(sent) = 2
    /\ sent[1].Data.id = sent[2].Data.id
    /\ sent[1].Event = "delete"
    /\ sent[2].Event = "update"

\* task p is about to upsert an insert or update over a tombstone whose ts
\* is newer than the operation's data.timestamp
StaleOverTombstone(p, s) ==
    /\ apc[p] = "upsert"
    /\ s.ID = aobj[p].ID
    /\ s.Event = "delete"
    /\ aop[p].Event \in {"insert", "update"}
    /\ aop[p].Data.ts < s.Timestamp

\* C7 (as claimed): a tombstone with ts = T survives the ingestion of a
\* later insert or update whose data.timestamp is older than T.
C7_TombstonePreserved ==
    [][\A p \in Procs : \A s \in oplog_states :
          (StaleOverTombstone(p, s) /\ aop'[p] # aop[p])
            => \E s2 \in oplog_states' : s2.ID = s.ID /\ s2.Event = "delete"]_vars

\* C7 (amended): the upsert is unconditional: a later insert or update
\* replaces the tombstone, so the object's only record has event=insert and
\* the operation's data, also when data.timestamp is older than T.
C7_TombstoneOverwritten ==
    [][\A p \in Procs : \A s \in oplog_states :
          (StaleOverTombstone(p, s) /\ aop'[p] # aop[p])
            => \A s2 \in oplog_states' :
                  s2.ID = s.ID => s2.Event = "insert" /\ s2.Data = aop[p].Data]_vars

\* C7 witness: the log holds a delete and then an insert or update of one
\* object, the later one older (data.timestamp) than the delete's insertion,
\* both processed, and the object's state is the insert
C7_Witness ==
    \E i, j \in 1..Len(oplog_ops) :
        /\ i < j
        /\ oplog_ops[i].Data.id = oplog_ops[j].Data.id
        /\ oplog_ops[i].Event = "delete"
        /\ oplog_ops[j].Event \in {"insert", "update"}
        /\ oplog_ops[j].Data.ts < oplog_ops[i].ID.time
        /\ {oplog_ops[i].n, oplog_ops[j].n} \subseteq completed
        /\ \E s \in oplog_states :
              /\ s.Event = "insert"
              /\ s.Data = oplog_ops[j].Data

\* C8 (as claimed): when Ingest returns, every operation that was queued in
\* the ops channel when done fired has been appended and upserted.
C8_DrainsOnShutdown ==
    apc["Ingest"] = "returned" => atDone.queued \subseteq completed

\* C8 (amended): when Ingest returns, every operation it took from the ops
\* channel has been appended and upserted (an append in flight, retries
\* included, completes first); operations still queued may be left behind.
C8_InFlightCompletes ==
    apc["Ingest"] = "returned" =>
        /\ aop["Ingest"] = NoOp
        /\ \A i \in 1..Len(sent) :
              sent[i].n \in completed
              \/ \E k \in 1..Len(opsChan) : opsChan[k].n = sent[i].n

\* C8 witness: done fired during an append that had to retry; Ingest has
\* returned with that operation processed and another still queued
C8_Witness ==
    /\ apc["Ingest"] = "returned"
    /\ atDone.inflight \in completed
    /\ faults < MaxFails
    /\ opsChan # <<>>

\* C15 (as claimed): a done signal is observed while an append retries
\* against a store that stays unavailable: once done is signalled Ingest
\* returns, without waiting for the store to come back.
C15_RetryObservesDone == doneChan ~> (apc["Ingest"] = "returned")

\* C14 (as claimed): the ts of an object's state never goes backwards: each
\* write of the state record stores a ts not lower than the one it
\* replaces, in every interleaving of the Ingest task with calls of Append.
C14_StateTsMonotone ==
    [][\A s \in oplog_states : \A s2 \in oplog_states' :
          s2.ID = s.ID => s2.Timestamp >= s.Timestamp]_vars

(***************************************************************************)
(* Properties of Tail.                                                     *)
(***************************************************************************)
IsLive(ev) == ev.kind = "control" /\ ev.Event = "live"
IsData(ev) == ev.kind \in {"operation", "state"}

\* the positions of the live events in the stream
Lives == {i \in 1..Len(out) : IsLive(out[i])}

Reflected(o) ==
    \/ \E k \in 1..Len(out) : out[k].kind = "operation" /\ out[k].ID = o.ID
    \/ \E k \in 1..Len(out) :
          /\ out[k].kind = "state"
          /\ out[k].ID = GetID(o.Data)
          /\ out[k].n >= o.n
    \/ /\ o.Event = "delete"
       /\ \A k \in 1..Len(out) : IsData(out[k]) => out[k].Data.id # o.Data.id

\* the live tail that follows the replication will return operation o
AfterBound(o) == upperBound.kind = "op" => o.ID.seq > upperBound.id.seq

C10_FilterFidelity ==
    /\ \A k \in 1..Len(out) :
          IsData(out[k]) =>
             /\ filter.Types # {} => out[k].Data.t \in filter.Types
             /\ filter.Parents # {} =>
                  \E par \in filter.Parents : par \in out[k].Data.p
    /\ upperBound # Unset => Lives # {}

\* C10 witness: after a store failure a filtered Tail has sent a state and
\* an operation, and the op-log holds an operation the filter rejects
C10_Witness ==
    /\ filter # NoFilter
    /\ faults < MaxFails
    /\ \E i, k \in 1..Len(out) : out[i].kind = "state" /\ out[k].kind = "operation"
    /\ \E i \in 1..Len(oplog_ops) :
          /\ filter.Types # {} => oplog_ops[i].Data.t \notin filter.Types
          /\ filter.Parents # {} => oplog_ops[i].Data.p \cap filter.Parents = {}

\* C4 (as claimed): once stop has been delivered to Tail, Tail returns.
C4_StopTerminates == done ~> (mpc = "returned")

\* the position in the reader's record where the first connection closed
ClosedAt == CHOOSE i \in 1..Len(out) :
                /\ out[i].kind = "closed"
                /\ \A j \in 1..(i - 1) : out[j].kind # "closed"

\* the second connection is up and its Tail has nothing left to send
Resumed == spc = "serving" /\ \E i \in 1..Len(out) : out[i].kind = "closed"
LiveIdle ==
    /\ tpc = "live"
    /\ iter.state \in {"open", "dead"}
    /\ LiveMatching(oplog_ops, filter, iter.pos) = <<>>
    /\ Len(out) < MaxOut

\* the Tail of the second connection sent operation o, or a state of its
\* object built from o or from a later operation
Redelivered(o) ==
    \E k \in (ClosedAt + 1)..Len(out) :
        \/ out[k].kind = "operation" /\ out[k].ID = o.ID
        \/ /\ out[k].kind = "state"
           /\ out[k].ID = GetID(o.Data)
           /\ out[k].n >= o.n

AboveBound(s) ==
    \E i \in 1..Len(oplog_ops) :
        /\ oplog_ops[i].n = s.n
        /\ upperBound.kind = "op" => oplog_ops[i].ID.seq > upperBound.id.seq

\* the Tail of the connection was called with a fallback id
FellBack ==
    /\ header.form = "hex"
    /\ spc = "serving"
    /\ lastID.kind = "repl" \/ upperBound # Unset

\* C9 (as claimed): a connection whose Last-Event-ID is a well-formed
\* operation id gets no error status; when the id is not in the op-log Tail
\* is called with the replication id of the operation's time in fallback
\* mode; and the stream of such a Tail has no reset, then states from that
\* time on in ascending ts, then live, then operations, every tombstone of
\* the range having been sent when live is sent, unless the live tail is
\* still to return its operation.
C9_EvictedCursorFallsBack ==
    /\ [](header.form = "hex" => spc \notin {"400", "503"})
    /\ [][(/\ spc = "idle"
           /\ spc' = "serving"
           /\ header'.form = "hex"
           /\ ~HasID(oplog_ops, NewLastID(header')))
            => lastID' = ReplicationLastID(header'.id.time, TRUE)]_vars
    /\ [](FellBack =>
            /\ \A i \in 1..Len(out) :
                  IF \E j \in Lives : j < i
                  THEN out[i].kind = "operation"
                  ELSE \/ i \in Lives
                       \/ /\ out[i].kind = "state"
                          /\ out[i].Timestamp >= header.id.time
                          /\ i > 1 => out[i - 1].Timestamp <= out[i].Timestamp
            /\ (upperBound # Unset /\ apc["Append"] = "idle") =>
                  \A s \in oplog_states :
                     (/\ s.Event = "delete"
                      /\ s.Timestamp >= header.id.time
                      /\ upperBound.kind = "op" =>
                            s.Timestamp <= upperBound.id.time)
                       => \/ \E k \in 1..Len(out) : out[k] = s
                          \/ AboveBound(s))

\* the positions of the reset events in the stream
Resets == {i \in 1..Len(out) : out[i] = ResetEvent}

\* C11: within one Tail call, whatever store errors, timeouts and
\* empty-collection retries happen, at most one reset and at most one live
\* event are sent; and a Tail called with an operation id or nil sends
\* neither, also when the live tail finds the op-log empty.
C11_ControlEventsOnce ==
    /\ Cardinality(Resets) <= 1
    /\ Cardinality(Lives) <= 1
    /\ cursor.kind \in {"op", "nil"} =>
          \A i \in 1..Len(out) : out[i].kind # "control"

\* C11 witness: a replication met a store error and sent live over an empty
\* op-log, and the live tail that follows finds the op-log still empty
C11_Witness ==
    /\ cursor.kind = "repl"
    /\ Lives # {}
    /\ sent = <<>>
    /\ faults < MaxFails
    /\ tpc = "live"
    /\ iter.state = "dead"

InRange(s) ==
    /\ s.Timestamp >= cursor.ts
    /\ upperBound.kind = "op" => s.Timestamp <= Time(upperBound)

C18_StoreOrder ==
    \A i, j \in 1..Len(out) :
        i < j =>
           /\ (out[i].kind = "operation" /\ out[j].kind = "operation")
                => out[i].ID.seq < out[j].ID.seq
           /\ (out[i].kind = "state" /\ out[j].kind = "state")
                => out[i].Timestamp <= out[j].Timestamp

\* C18 witness: a replication that a store error made retry has sent two
\* states, then live, and the live tail has sent two operations
C18_Witness ==
    /\ faults < MaxFails
    /\ \E i, j, k, l \in 1..Len(out) :
          /\ i < j /\ j < k /\ k < l
          /\ out[i].kind = "state"
          /\ out[j].kind = "state"
          /\ out[k].kind = "operation"
          /\ out[l].kind = "operation"

\* the operations sent, in the order they were sent
OpsSent == SelectSeq(out, LAMBDA e : e.kind = "operation")
\* the operations of the op-log after position pos
OpsAfter(pos) == SelectSeq(oplog_ops, LAMBDA o : o.ID.seq > pos)
IsPrefix(p, q) == Len(p) <= Len(q) /\ \A i \in 1..Len(p) : p[i] = q[i]

StatesBefore(i) == {j \in 1..(i - 1) : out[j].kind = "state"}

Wanted(s) ==
    /\ Apply(filter, s.Data)
    /\ InRange(s)
    /\ ~cursor.fallbackMode => s.Event = "insert"

C21_PlainPageRetry ==
    /\ [][(/\ tpc = "retry"
           /\ lastID.kind = "repl"
           /\ iter.state # "nil"
           /\ tpc' # "retry") =>
            /\ tpc' = "capture"
            /\ iter'.state = "closed"
            /\ IF lastEv # NoEv
               THEN lastID'.kind = "repl" /\ lastID'.ts = lastEv.Timestamp
               ELSE lastID' = cursor]_vars
    /\ [](cursor.kind = "repl" => Cardinality(Resets) <= 1)
    /\ []((cursor.kind = "repl" /\ ~cursor.fallbackMode
           /\ upperBound # Unset) =>
            \A s \in oplog_states :
                Wanted(s) => \E k \in 1..Len(out) : out[k] = s)

\* C22 (as claimed): Tail has at most one iterator open at any time: no
\* iterator is replaced by a new one while it is neither closed nor nil,
\* on the next-page query, the empty-collection retry, the error retry and
\* the stop paths, and once the goroutine has returned its iterator is
\* closed.
C22_OneIteratorOpen ==
    /\ ~leaked
    /\ tpc = "returned" => iter.state \in {"nil", "closed"}

\* the subscriber went away with reset as the only event it had received,
\* came back with the id of that event, and Tail was called again
ResumedAfterReset ==
    /\ Resumed
    /\ ClosedAt = 2
    /\ out[1] = ResetEvent

\* C25 (as claimed): a subscriber that received reset and comes back with
\* its id gets a cursor that is an operation id, and the new Tail call does
\* not send reset again.
C25_ResetIdIsOperationID ==
    ResumedAfterReset =>
        /\ cursor.kind = "op"
        /\ \A k \in 3..Len(out) : out[k] # ResetEvent

\* C25 (amended): a subscriber that received reset and comes back with its
\* id gets the replication id of timestamp 1 with fallback=false, not an
\* operation id, and the new Tail call does not send reset again.
C25_ResetIdIsReplicationID ==
    ResumedAfterReset =>
        /\ cursor = ReplicationLastID(1, FALSE)
        /\ \A k \in 3..Len(out) : out[k] # ResetEvent

\* C25 witness: the second Tail call, started with the id of reset, has
\* replicated a state and sent live
C25_Witness ==
    /\ ResumedAfterReset
    /\ \E k \in 3..Len(out) : out[k].kind = "state"
    /\ \E k \in 3..Len(out) : IsLive(out[k])

\* C26 (as claimed): the stop handshake cannot deadlock.  The handler that
\* saw the subscriber go away sends on the unbuffered stop channel and
\* reads out no more; the send is received only by the select of lines
\* 478-479.  So whenever the handler is at that send, Tail is at its
\* select: also when the subscriber went away while Tail was sending
\* reset, or while the goroutine was sending a data event.
C26_StopIsReceived == spc = "stopping" => mpc = "select"

Snapshot(q) ==
    LET live == {q[i] : i \in {j \in 1..Len(q) : q[j].Event # "delete"}}
    IN [k \in {s.ID : s \in live} |->
           (CHOOSE s \in live : s.ID = k).Data]

\* C13 (as claimed): when Diff is called with a createMap equal to the
\* snapshot of the live states of the store, timestamps equal, and with
\* empty update and delete maps, all three maps are empty after it,
\* whatever tombstones the store holds.
C13_DiffRoundTrip ==
    (~diffErr /\ dump = Snapshot(scanned)) =>
        /\ createMap = NoMap
        /\ updateMap = NoMap
        /\ deleteMap = NoMap

\* the round trip over a store without tombstones
C13_RoundTripNoTombstone ==
    (/\ ~diffErr
     /\ dump = Snapshot(scanned)
     /\ \A i \in 1..Len(scanned) : scanned[i].Event # "delete") =>
        /\ createMap = NoMap
        /\ updateMap = NoMap
        /\ deleteMap = NoMap

\* C23 (as claimed): a tombstone whose object is in the dump is handled by
\* the delete branch only: after Diff the object is gone from create
\* exactly when the dump's timestamp is before the tombstone's, and it is
\* in neither update nor delete.
C23_TombstoneInDump ==
    \A i \in 1..Len(scanned) :
        (scanned[i].Event = "delete" /\ scanned[i].ID \in DOMAIN dump) =>
            /\ scanned[i].ID \notin DOMAIN createMap
                 <=> dump[scanned[i].ID].ts < scanned[i].Data.ts
            /\ scanned[i].ID \notin DOMAIN updateMap
            /\ scanned[i].ID \notin DOMAIN deleteMap

\* the greatest timestamp of a dump that is not empty
GreatestTs(d) ==
    CHOOSE t \in {d[k].ts : k \in DOMAIN d} :
        \A k \in DOMAIN d : d[k].ts <= t

C28_DisjointReadOnly ==
    /\ [](/\ DOMAIN createMap \cap DOMAIN updateMap = {}
          /\ DOMAIN createMap \cap DOMAIN deleteMap = {}
          /\ DOMAIN updateMap \cap DOMAIN deleteMap = {}
          /\ \A k \in DOMAIN createMap :
                k \in DOMAIN dump /\ createMap[k] = dump[k])
    /\ [][diffVars' # diffVars =>
            UNCHANGED <<oplog_ops, oplog_states>>]_vars

\* C28 witness: Diff ran to its end, left in create a dump object the store
\* does not hold and put a stored object in delete
C28_Witness ==
    /\ scanned # <<>>
    /\ ~diffErr
    /\ createMap # NoMap
    /\ deleteMap # NoMap

====